---------------------------- MODULE Spec2Model ----------------------------
(***************************************************************************)
(* A model of the Clay (coupled-layer) erasure code of spool-labs/clay:    *)
(* ErasureCodeClay (src/src/ErasureCodeClay.cc) on top of ErasureCode      *)
(* (src/src/ErasureCode.cc), with the BufferList value type the two files  *)
(* are written against (class BufferList, a std::vector<char> that is      *)
(* copied by assignment and by substr_of).                                 *)
(*                                                                         *)
(* One code instance and one caller.  The caller initialises the instance, *)
(* encodes an input, asks minimum_to_decode / is_repair and decodes with   *)
(* full chunks or with the sub-chunks minimum_to_decode asked for.  The    *)
(* instance keeps k, m, d, q, t, nu, sub_chunk_no and U_buf between calls. *)
(***************************************************************************)
EXTENDS Integers, Sequences, FiniteSets, TLC

VARIABLES
    ndebug,        \* the build: TRUE when assert() is compiled out (-DNDEBUG)
    st,            \* "Initial" | "Failed" | "Ready" | "Result" | "Dead"
    k, m, d,       \* ErasureCodeClay::k, m, d
    q, t, nu,      \* ErasureCodeClay::q, t, nu
    sub_chunk_no,  \* ErasureCodeClay::sub_chunk_no
    U_buf,         \* ErasureCodeClay::U_buf : node -> buffer
    input,         \* the caller's last encode input
    encoded,       \* the caller's map of encoded chunks (last encode)
    call           \* the last call: its arguments, how it ended (out:
                   \* "return" | "throw" | "abort" | "ub"), its return value
                   \* (ret, when it returned) and its outputs

vars == <<ndebug, st, k, m, d, q, t, nu, sub_chunk_no, U_buf, input, encoded, call>>

-----------------------------------------------------------------------------
(* Bounds of the model *)

\* init is tried with k, m in -1..MaxSmall and d in -1..2*MaxSmall
MaxSmall == 3
\* encode / decode run on instances with at most this many logical nodes
MaxNodesData == 4
\* ... and at most this many sub-chunks per chunk
MaxAlphaData == 4
\* input bytes follow one of the patterns 1..MaxPattern
MaxPattern == 1

(* Program constants *)
EINVAL == 22
EIO == 5
SIMD_ALIGN == 32
LARGEST_VECTOR_WORDSIZE == 16
SizeofInt == 4
DefaultW == 8
MaxFieldNodes == 254

-----------------------------------------------------------------------------
(* C++ int arithmetic *)

Abs(x) == IF x < 0 THEN 0 - x ELSE x

\* C++ integer division truncates toward zero
CDiv(a, b) ==
    IF (a >= 0) = (b > 0) THEN Abs(a) \div Abs(b) ELSE 0 - (Abs(a) \div Abs(b))

\* C++ remainder has the sign of the dividend
CMod(a, b) == a - b * CDiv(a, b)

\* the two 16-bit halves of a 32-bit int (two's complement)
Lo16(x) == x % 65536
Hi16(x) == (x \div 65536) % 65536

\* x * y modulo 2^16, for 16-bit x and y
MulMod16(x, y) == (x * (y % 256) + ((x * (y \div 256)) % 256) * 256) % 65536

\* an int multiplication as the 32-bit machine does it: the product
\* modulo 2^32, read as a signed int (the wrap of an overflowing "*=")
Mul32(a, b) ==
    LET al == Lo16(a)
        ah == Hi16(a)
        bl == Lo16(b)
        bh == Hi16(b)
        p0 == al * (bl % 256)
        p1 == al * (bl \div 256)
        low == (p1 % 256) * 256 + p0
        lo == low % 65536
        carry == (p1 \div 256) + (low \div 65536)
        hi == (MulMod16(ah, bl) + MulMod16(al, bh) + carry) % 65536
    IN  IF hi >= 32768 THEN (hi - 65536) * 65536 + lo ELSE hi * 65536 + lo

\* the while loop of pow_int on its variables s = [a, x, power]
RECURSIVE pow_loop(_)
pow_loop(s) ==
    IF s.x = 0 THEN s.power
    ELSE pow_loop([a |-> Mul32(s.a, s.a), x |-> CDiv(s.x, 2),
                   power |-> IF s.x % 2 = 1 THEN Mul32(s.power, s.a)
                                            ELSE s.power])

pow_int(a, x) == pow_loop([a |-> a, x |-> x, power |-> 1])

-----------------------------------------------------------------------------
(* Initialisation: ErasureCodeClay::init and ErasureCodeClay::parse *)

\* "err |= r" for return codes that are 0 or one negative errno
OrErr(err, r) == IF err = 0 THEN r ELSE err

sanity_check_k(pk) == IF pk < 2 THEN 0 - EINVAL ELSE 0

\* parse with the node limit applied to k + m alone, nu left out
parse_limit_without_nu(pk, pm, pd) ==
    LET err == OrErr(0, sanity_check_k(pk))
        cur == [k |-> pk, m |-> pm, d |-> pd, q |-> q, t |-> t, nu |-> nu,
                sub_chunk_no |-> sub_chunk_no]
        pq  == pd - pk + 1
        pnu == IF CMod(pk + pm, pq) # 0 THEN pq - CMod(pk + pm, pq) ELSE 0
        pt  == CDiv(pk + pm + pnu, pq)
    IN  IF (pd < pk) \/ (pd > pk + pm - 1)
        THEN [ret |-> 0 - EINVAL, mem |-> cur]
        ELSE IF pk + pm > MaxFieldNodes
        THEN [ret |-> 0 - EINVAL, mem |-> [cur EXCEPT !.q = pq, !.nu = pnu]]
        ELSE [ret |-> err,
              mem |-> [cur EXCEPT !.q = pq, !.nu = pnu, !.t = pt,
                                  !.sub_chunk_no = pow_int(pq, pt)]]

\* The members after parse(profile) and its return value.  The profile
\* holds k, m and d as decimal integers; a return before a member is
\* assigned leaves the member as it was.
parse(pk, pm, pd) ==
    LET err == OrErr(0, sanity_check_k(pk))
        cur == [k |-> pk, m |-> pm, d |-> pd, q |-> q, t |-> t, nu |-> nu,
                sub_chunk_no |-> sub_chunk_no]
        pq  == pd - pk + 1
        pnu == IF CMod(pk + pm, pq) # 0 THEN pq - CMod(pk + pm, pq) ELSE 0
        pt  == CDiv(pk + pm + pnu, pq)
    IN  IF (pd < pk) \/ (pd > pk + pm - 1)
        THEN [ret |-> 0 - EINVAL, mem |-> cur]
        ELSE IF pk + pm + pnu > MaxFieldNodes
        THEN [ret |-> 0 - EINVAL, mem |-> [cur EXCEPT !.q = pq, !.nu = pnu]]
        ELSE [ret |-> err,
              mem |-> [cur EXCEPT !.q = pq, !.nu = pnu, !.t = pt,
                                  !.sub_chunk_no = pow_int(pq, pt)]]

\* ErasureCodeJerasure::parse of the scalar code's profile (k, m, w = 8)
jerasure_parse(jk, jm, jw) ==
    LET err == OrErr(0, sanity_check_k(jk))
    IN  IF jw # 8 /\ jw # 16 /\ jw # 32 THEN 0 - EINVAL ELSE err

\* the rest of ErasureCodeClay::init after parse returned p:
\* ErasureCode::init (which parses again, with the same result), then init
\* of the two scalar codes mds (k + nu, m) and pft (2, 2)
init_scalar_codes(p) ==
    LET r_mds == jerasure_parse(p.mem.k + p.mem.nu, p.mem.m, DefaultW)
        r_pft == jerasure_parse(2, 2, DefaultW)
    IN  IF p.ret # 0 THEN p
        ELSE IF r_mds # 0 THEN [p EXCEPT !.ret = r_mds]
        ELSE [p EXCEPT !.ret = r_pft]

\* ErasureCodeClay::init
clay_init(pk, pm, pd) == init_scalar_codes(parse(pk, pm, pd))

-----------------------------------------------------------------------------
(* Node geometry and helper selection *)

\* physical chunk indices of the instance
Nodes == 0..(k + m - 1)

\* the elements of a std::set<int> in iteration (ascending) order
RECURSIVE Ascending(_)
Ascending(S) ==
    IF S = {} THEN << >>
    ELSE LET lo == CHOOSE x \in S : \A y \in S : x <= y
         IN  <<lo>> \o Ascending(S \ {lo})

\* *want_to_read.begin()
First(S) == CHOOSE x \in S : \A y \in S : x <= y

\* physical index -> logical index: (i < k) ? i : i + nu
lost_node_of(i) == IF i < k THEN i ELSE i + nu

\* the value z % q of step i of the loop of get_plane_vector
RECURSIVE plane_digit(_, _)
plane_digit(z, i) ==
    IF i <= 0 THEN z % q ELSE plane_digit((z - (z % q)) \div q, i - 1)

\* the digits stored in the opposite order: z_vec[i] = digit i
get_plane_vector_reversed(z) == [y \in 0..(t - 1) |-> plane_digit(z, y)]

\* z_vec of plane z: z_vec[t-1-i] is the i-th base-q digit of z
get_plane_vector(z) ==
    [y \in 0..(t - 1) |-> plane_digit(z, t - 1 - y)]

is_repair(want_to_read, available) ==
    IF want_to_read \subseteq available THEN 0
    ELSE IF Cardinality(want_to_read) > 1 THEN 0
    ELSE LET i == First(want_to_read)
             lost_node_id == lost_node_of(i)
             node_of(x) ==
                 LET node == CDiv(lost_node_id, q) * q + x
                 IN  IF node < k THEN node ELSE node - nu
         IN  IF \E x \in 0..(q - 1) :
                   node_of(x) # i /\ node_of(x) \notin available
             THEN 0
             ELSE IF Cardinality(available) < d THEN 0
             ELSE 1

\* the (index, count) runs of sub-chunks a helper sends to repair lost_node
RECURSIVE repair_runs(_, _, _, _)
repair_runs(ind_seq, num_seq, index, seq_sc_count) ==
    IF ind_seq >= num_seq THEN << >>
    ELSE <<(<<index, seq_sc_count>>)>>
         \o repair_runs(ind_seq + 1, num_seq, index + q * seq_sc_count,
                        seq_sc_count)

\* the runs with run length and run count exchanged
get_repair_subchunks_swapped(lost_node) ==
    LET y_lost == CDiv(lost_node, q)
        x_lost == CMod(lost_node, q)
        seq_sc_count == pow_int(q, y_lost)
        num_seq == pow_int(q, t - 1 - y_lost)
    IN  repair_runs(0, num_seq, x_lost * seq_sc_count, seq_sc_count)

\* the runs counted from sub-chunk 0, whatever x_lost is
get_repair_subchunks_from_zero(lost_node) ==
    LET y_lost == CDiv(lost_node, q)
        seq_sc_count == pow_int(q, t - 1 - y_lost)
        num_seq == pow_int(q, y_lost)
    IN  repair_runs(0, num_seq, 0, seq_sc_count)

get_repair_subchunks(lost_node) ==
    LET y_lost == CDiv(lost_node, q)
        x_lost == CMod(lost_node, q)
        seq_sc_count == pow_int(q, t - 1 - y_lost)
        num_seq == pow_int(q, y_lost)
    IN  repair_runs(0, num_seq, x_lost * seq_sc_count, seq_sc_count)

\* the second loop of minimum_to_repair: available chunks in ascending
\* order are added until the map holds d entries
RECURSIVE fill_minimum(_, _, _)
fill_minimum(minimum, chunks, sub_chunk_ind) ==
    IF chunks = << >> \/ Cardinality(DOMAIN minimum) >= d THEN minimum
    ELSE fill_minimum(
             IF Head(chunks) \in DOMAIN minimum THEN minimum
             ELSE minimum @@ (Head(chunks) :> sub_chunk_ind),
             Tail(chunks), sub_chunk_ind)

\* the first loop of minimum_to_repair: the nodes of the lost node's
\* y-section, shortened positions left out
section_helpers(lost_node_index) ==
    { IF rep < k THEN rep ELSE rep - nu :
        rep \in { CDiv(lost_node_index, q) * q + j :
                    j \in (0..(q - 1)) \ {CMod(lost_node_index, q)} }
                \ (k..(k + nu - 1)) }

\* all of the helpers, with no stop at d entries
minimum_to_repair_no_limit(want_to_read, available, ndbg) ==
    LET lost_node_index == lost_node_of(First(want_to_read))
        sub_chunk_ind == get_repair_subchunks(lost_node_index)
    IN  [out |-> "return", ret |-> 0,
         minimum |-> [n \in section_helpers(lost_node_index) \cup available
                        |-> sub_chunk_ind]]

\* the first d available chunks, the y-section not put first
minimum_to_repair_no_section(want_to_read, available, ndbg) ==
    LET lost_node_index == lost_node_of(First(want_to_read))
        sub_chunk_ind == get_repair_subchunks(lost_node_index)
    IN  [out |-> "return", ret |-> 0,
         minimum |-> fill_minimum(<< >>, Ascending(available), sub_chunk_ind)]

\* the caller's map *minimum is empty on entry
minimum_to_repair(want_to_read, available, ndbg) ==
    LET lost_node_index == lost_node_of(First(want_to_read))
        sub_chunk_ind == get_repair_subchunks(lost_node_index)
        first == [n \in section_helpers(lost_node_index) |-> sub_chunk_ind]
        filled == fill_minimum(first, Ascending(available), sub_chunk_ind)
    IN  IF Cardinality(available) < d
        THEN [out |-> "throw", ret |-> 0, minimum |-> << >>]
        ELSE IF ~ndbg /\ Cardinality(DOMAIN filled) # d
        THEN [out |-> "abort", ret |-> 0, minimum |-> filled]
        ELSE [out |-> "return", ret |-> 0, minimum |-> filled]

\* a variant that never reports a shortage of available chunks
base_minimum_to_decode_no_eio(want_to_read, available_chunks) ==
    IF want_to_read \subseteq available_chunks
    THEN [ret |-> 0, minimum |-> want_to_read]
    ELSE [ret |-> 0,
          minimum |-> { Ascending(available_chunks)[j] :
                          j \in 1..(IF k < Cardinality(available_chunks) THEN k
                                   ELSE Cardinality(available_chunks)) }]

\* ErasureCode::_minimum_to_decode
base_minimum_to_decode(want_to_read, available_chunks) ==
    IF want_to_read \subseteq available_chunks
    THEN [ret |-> 0, minimum |-> want_to_read]
    ELSE IF Cardinality(available_chunks) < k
    THEN [ret |-> 0 - EIO, minimum |-> {}]
    ELSE [ret |-> 0,
          minimum |-> { Ascending(available_chunks)[j] : j \in 1..k }]

\* ErasureCode::minimum_to_decode: whole chunks, (0, get_sub_chunk_count())
default_minimum_to_decode(want_to_read, available) ==
    LET r == base_minimum_to_decode(want_to_read, available)
    IN  IF r.ret # 0 THEN [out |-> "return", ret |-> r.ret, minimum |-> << >>]
        ELSE [out |-> "return", ret |-> 0,
              minimum |-> [n \in r.minimum |-> <<(<<0, sub_chunk_no>>)>>]]

\* ErasureCodeClay::minimum_to_decode
minimum_to_decode(want_to_read, available, ndbg) ==
    IF is_repair(want_to_read, available) # 0
    THEN minimum_to_repair(want_to_read, available, ndbg)
    ELSE default_minimum_to_decode(want_to_read, available)

\* the sets a caller asks for: nothing, one chunk, two neighbouring chunks
WantSets ==
    {{}} \cup { {f} : f \in Nodes }
         \cup { {f, f + 1} : f \in 0..(k + m - 2) }

-----------------------------------------------------------------------------
(* BufferList: a vector of bytes, copied by assignment and by substr_of *)

Zeros(n) == [i \in 1..n |-> 0]

Min(a, b) == IF a < b THEN a ELSE b

align_size(size, align) ==
    IF align = 0 THEN size ELSE ((size + align - 1) \div align) * align

\* BufferList(size, align): zero bytes, the size rounded up to align
new_buffer(size, align) ==
    IF size > 0 THEN Zeros(align_size(size, align)) ELSE << >>

\* length of map[i], where operator[] makes a missing entry an empty buffer
LenAt(map, i) == IF i \in DOMAIN map THEN Len(map[i]) ELSE 0

\* substr_of(src, pos, len) accepts the range
in_range(length, pos, len) == pos + len <= length

\* the bytes substr_of(src, pos, len) copies
substr_of(src, pos, len) == SubSeq(src, pos + 1, pos + len)

rebuild_aligned(buf, align) ==
    IF buf = << >> THEN buf
    ELSE buf \o Zeros(align_size(Len(buf), align) - Len(buf))

rebuild_aligned_size_and_memory(buf, size, align) ==
    [i \in 1..align_size(size, align) |->
        IF i <= Min(Len(buf), size) THEN buf[i] ELSE 0]

\* memcpy(&dst[pos], bytes, Len(bytes)) within dst
memcpy_at(dst, pos, bytes) ==
    [i \in 1..Len(dst) |->
        IF pos < i /\ i <= pos + Len(bytes) THEN bytes[i - pos] ELSE dst[i]]

-----------------------------------------------------------------------------
(* Chunk size and encode_prepare *)

get_alignment ==
    IF (DefaultW * SizeofInt) % LARGEST_VECTOR_WORDSIZE # 0
    THEN k * sub_chunk_no * DefaultW * LARGEST_VECTOR_WORDSIZE
    ELSE k * sub_chunk_no * DefaultW * SizeofInt

\* a chunk size that divides the object among k chunks without padding
get_chunk_size_unpadded(object_size) == (object_size + k - 1) \div k

\* the assert of get_chunk_size holds for every object_size: the padded
\* length is a multiple of the alignment k * sub_chunk_no * 32
get_chunk_size(object_size) ==
    LET alignment == get_alignment
        tail == object_size % alignment
        padded_length ==
            object_size + (IF tail # 0 THEN alignment - tail ELSE 0)
    IN  padded_length \div k

\* encode_prepare for a raw input of length > 0.  The tail chunk is a new
\* zeroed buffer of the remainder's aligned size; zero(remainder, blocksize
\* - remainder) throws std::out_of_range when that buffer is shorter than
\* blocksize, and the bytes of the tail are not copied into it.
encode_prepare(raw) ==
    LET blocksize == get_chunk_size(Len(raw))
        padded_chunks == k - (Len(raw) \div blocksize)
        full == [i \in 0..(k - padded_chunks - 1) |->
                   rebuild_aligned_size_and_memory(
                       substr_of(raw, i * blocksize, blocksize),
                       blocksize, SIMD_ALIGN)]
        remainder == Len(raw) - (k - padded_chunks) * blocksize
        buf == new_buffer(remainder, SIMD_ALIGN)
    IN  IF padded_chunks # 0 /\ ~in_range(Len(buf), remainder, blocksize - remainder)
        THEN [out |-> "throw", ret |-> 0, encoded |-> full]
        ELSE [out |-> "return", ret |-> 0,
              encoded |->
                [i \in Nodes |->
                    IF i < k - padded_chunks THEN full[i]
                    ELSE IF i = k - padded_chunks /\ i < k THEN buf
                    ELSE new_buffer(blocksize, SIMD_ALIGN)]]

-----------------------------------------------------------------------------
(* Layered decoding.  A run carries the instance's U_buf, the chunk map the
   routine works on (keyed by logical node) and how far it got: "ok", or
   the event that ended it ("throw": std::out_of_range of substr_of;
   "ub": a memcpy outside a buffer; "abort": a failed assert).  A run that
   has ended leaves every loop it is in.  The scalar
   codes pft and mds decode into buffers that substr_of copied out of U_buf
   and the chunks, so their results reach neither. *)

Run(U, chunks, out) == [U |-> U, chunks |-> chunks, out |-> out]

\* a variant that weights the digit of y-section y with q^y
z_sw_of_low_first(x, y, z) ==
    z + (x - get_plane_vector(z)[y]) * pow_int(q, y)

\* z + (x - z_vec[y]) * pow_int(q, t - 1 - y)
z_sw_of(x, y, z) == z + (x - get_plane_vector(z)[y]) * pow_int(q, t - 1 - y)

\* whether sub-chunk z of map[node] lies inside the buffer
has_sub_chunk(map, node, z, sc_size) ==
    in_range(LenAt(map, node), z * sc_size, sc_size)

\* the four substr_of calls of get_uncoupled_from_coupled and of
\* get_coupled_from_uncoupled
pair_reads_ok(r, x, y, z, sc_size) ==
    LET node_xy == y * q + x
        node_sw == y * q + get_plane_vector(z)[y]
        z_sw == z_sw_of(x, y, z)
    IN  /\ has_sub_chunk(r.chunks, node_xy, z, sc_size)
        /\ has_sub_chunk(r.chunks, node_sw, z_sw, sc_size)
        /\ has_sub_chunk(r.U, node_xy, z, sc_size)
        /\ has_sub_chunk(r.U, node_sw, z_sw, sc_size)

get_uncoupled_from_coupled(r, x, y, z, sc_size) ==
    IF r.out # "ok" THEN r
    ELSE IF pair_reads_ok(r, x, y, z, sc_size) THEN r
    ELSE [r EXCEPT !.out = "throw"]

get_coupled_from_uncoupled(r, x, y, z, sc_size) ==
    IF r.out # "ok" THEN r
    ELSE IF pair_reads_ok(r, x, y, z, sc_size) THEN r
    ELSE [r EXCEPT !.out = "throw"]

recover_type1_erasure(r, x, y, z, sc_size) ==
    LET node_xy == y * q + x
        node_sw == y * q + get_plane_vector(z)[y]
        z_sw == z_sw_of(x, y, z)
    IN  IF r.out # "ok" THEN r
        ELSE IF /\ has_sub_chunk(r.chunks, node_xy, z, sc_size)
                /\ has_sub_chunk(r.chunks, node_sw, z_sw, sc_size)
                /\ has_sub_chunk(r.U, node_xy, z, sc_size)
        THEN r
        ELSE [r EXCEPT !.out = "throw"]

\* memcpy(&U_buf[node][z * sc_size], &chunks[node][z * sc_size], sc_size)
copy_to_U(r, node, z, sc_size) ==
    IF r.out # "ok" THEN r
    ELSE IF ~(has_sub_chunk(r.U, node, z, sc_size)
              /\ has_sub_chunk(r.chunks, node, z, sc_size))
    THEN [r EXCEPT !.out = "ub"]
    ELSE [r EXCEPT !.U[node] =
            memcpy_at(@, z * sc_size,
                      substr_of(r.chunks[node], z * sc_size, sc_size))]

\* memcpy(&chunks[node][z * sc_size], &U_buf[node][z * sc_size], sc_size)
copy_from_U(r, node, z, sc_size) ==
    IF r.out # "ok" THEN r
    ELSE IF ~(has_sub_chunk(r.U, node, z, sc_size)
              /\ has_sub_chunk(r.chunks, node, z, sc_size))
    THEN [r EXCEPT !.out = "ub"]
    ELSE [r EXCEPT !.chunks[node] =
            memcpy_at(@, z * sc_size,
                      substr_of(r.U[node], z * sc_size, sc_size))]

\* decode_uncoupled: sub-chunk z of every U_buf[i] is copied out and the
\* scalar MDS code decodes the copies
decode_uncoupled(r, z, sc_size) ==
    IF r.out # "ok" THEN r
    ELSE IF \A i \in 0..(q * t - 1) : has_sub_chunk(r.U, i, z, sc_size) THEN r
    ELSE [r EXCEPT !.out = "throw"]

\* the body of the x, y loops of decode_erasures for one node
decode_erasures_node(r, erased_chunks, x, y, z, sc_size) ==
    LET node_xy == q * y + x
        node_sw == q * y + get_plane_vector(z)[y]
        zy == get_plane_vector(z)[y]
    IN  IF node_xy \in erased_chunks THEN r
        ELSE IF zy < x THEN get_uncoupled_from_coupled(r, x, y, z, sc_size)
        ELSE IF zy = x THEN copy_to_U(r, node_xy, z, sc_size)
        ELSE IF node_sw \in erased_chunks
        THEN get_uncoupled_from_coupled(r, x, y, z, sc_size)
        ELSE r

\* for (x < q) for (y < t): step idx is x = idx / t, y = idx % t
RECURSIVE decode_erasures_loop(_, _, _, _, _)
decode_erasures_loop(r, erased_chunks, z, sc_size, idx) ==
    IF r.out # "ok" \/ idx >= q * t THEN r
    ELSE decode_erasures_loop(
             decode_erasures_node(r, erased_chunks, idx \div t, idx % t,
                                  z, sc_size),
             erased_chunks, z, sc_size, idx + 1)

decode_erasures(r, erased_chunks, z, sc_size) ==
    decode_uncoupled(decode_erasures_loop(r, erased_chunks, z, sc_size, 0),
                     z, sc_size)

\* the second loop of decode_layered for one erased node of plane z
recover_node(r, erased_chunks, node_xy, z, sc_size) ==
    LET x == node_xy % q
        y == node_xy \div q
        zy == get_plane_vector(z)[y]
        node_sw == y * q + zy
    IN  IF zy # x
        THEN IF node_sw \notin erased_chunks
             THEN recover_type1_erasure(r, x, y, z, sc_size)
             ELSE IF zy < x
             THEN get_coupled_from_uncoupled(r, x, y, z, sc_size)
             ELSE r
        ELSE copy_from_U(r, node_xy, z, sc_size)

RECURSIVE recover_nodes(_, _, _, _, _)
recover_nodes(r, erased_chunks, nodes, z, sc_size) ==
    IF r.out # "ok" \/ nodes = << >> THEN r
    ELSE recover_nodes(recover_node(r, erased_chunks, Head(nodes), z, sc_size),
                       erased_chunks, Tail(nodes), z, sc_size)

\* parity nodes from k + nu on are added until m nodes are erased
RECURSIVE pad_erasures(_, _)
pad_erasures(erased_chunks, i) ==
    IF Cardinality(erased_chunks) >= m \/ i >= q * t THEN erased_chunks
    ELSE pad_erasures(erased_chunks \cup {i}, i + 1)

get_max_iscore(erased_chunks) ==
    Cardinality({ i \div q : i \in erased_chunks })

\* order[z] of set_planes_sequential_decoding_order
plane_order(erasures, z) ==
    Cardinality({ i \in erasures : i % q = get_plane_vector(z)[i \div q] })

\* the planes of one intersection score, ascending
planes_of_order(erasures, iscore) ==
    Ascending({ z \in 0..(sub_chunk_no - 1) : plane_order(erasures, z) = iscore })

RECURSIVE decode_planes(_, _, _, _)
decode_planes(r, erased_chunks, planes, sc_size) ==
    IF r.out # "ok" \/ planes = << >> THEN r
    ELSE decode_planes(decode_erasures(r, erased_chunks, Head(planes), sc_size),
                       erased_chunks, Tail(planes), sc_size)

RECURSIVE recover_planes(_, _, _, _)
recover_planes(r, erased_chunks, planes, sc_size) ==
    IF r.out # "ok" \/ planes = << >> THEN r
    ELSE recover_planes(
             recover_nodes(r, erased_chunks, Ascending(erased_chunks),
                           Head(planes), sc_size),
             erased_chunks, Tail(planes), sc_size)

RECURSIVE iscore_loop(_, _, _, _, _)
iscore_loop(r, erased_chunks, iscore, max_iscore, sc_size) ==
    IF r.out # "ok" \/ iscore > max_iscore THEN r
    ELSE LET planes == planes_of_order(erased_chunks, iscore)
         IN  iscore_loop(
                 recover_planes(
                     decode_planes(r, erased_chunks, planes, sc_size),
                     erased_chunks, planes, sc_size),
                 erased_chunks, iscore + 1, max_iscore, sc_size)

\* U_buf[i] is allocated, zeroed, only where it is still empty
allocate_U(U, size) ==
    [i \in (DOMAIN U) \cup (0..(q * t - 1)) |->
        IF LenAt(U, i) = 0 THEN new_buffer(size, SIMD_ALIGN) ELSE U[i]]

\* decode_layered(erased_chunks, chunks) with the instance's U_buf; the
\* asserts end the run unless they are compiled out (ndbg)
decode_layered(erased_chunks, chunks, U, ndbg) ==
    LET size == LenAt(chunks, 0)
        sc_size == size \div sub_chunk_no
        padded == pad_erasures(erased_chunks, k + nu)
        r == iscore_loop(Run(allocate_U(U, size), chunks, "ok"), padded, 0,
                         get_max_iscore(padded), sc_size)
    IN  IF ~ndbg /\ (size % sub_chunk_no # 0 \/ erased_chunks = {}
                     \/ Cardinality(padded) # m)
        THEN Run(U, chunks, "abort")
        ELSE r

-----------------------------------------------------------------------------
(* Encoding *)

\* a variant that fills the shortened nodes with the bytes of chunk 0
encode_chunks_shortened_filled(chunks_in, U, ndbg) ==
    decode_layered({ i + nu : i \in k..(k + m - 1) },
                   [i \in 0..(q * t - 1) |->
                      IF i < k THEN chunks_in[i]
                      ELSE IF i < k + nu THEN chunks_in[0]
                      ELSE chunks_in[i - nu]],
                   U, ndbg)

\* ErasureCodeClay::encode_chunks: the chunks are copied into a local map
\* keyed by logical node, shortened nodes added as zero buffers, and the
\* parity nodes are decoded as erasures.  The local map is dropped on
\* return; the caller's encoded map is not written.
encode_chunks(chunks_in, U, ndbg) ==
    LET chunk_size == LenAt(chunks_in, 0)
        chunks == [i \in 0..(q * t - 1) |->
                     IF i < k THEN chunks_in[i]
                     ELSE IF i < k + nu THEN new_buffer(chunk_size, SIMD_ALIGN)
                     ELSE chunks_in[i - nu]]
        parity_chunks == { i + nu : i \in k..(k + m - 1) }
    IN  decode_layered(parity_chunks, chunks, U, ndbg)

\* ErasureCode::encode: encode_prepare, encode_chunks (its return value is
\* not looked at), then the chunks not wanted are erased
encode(want_to_encode, in, U, ndbg) ==
    LET prep == encode_prepare(in)
        r == encode_chunks(prep.encoded, U, ndbg)
    IN  IF prep.out # "return"
        THEN [out |-> prep.out, ret |-> 0, encoded |-> prep.encoded, U |-> U]
        ELSE IF r.out # "ok"
        THEN [out |-> r.out, ret |-> 0, encoded |-> prep.encoded, U |-> r.U]
        ELSE [out |-> "return", ret |-> 0, U |-> r.U,
              encoded |-> [i \in want_to_encode |-> prep.encoded[i]]]

\* the input bytes of pattern p: non-zero, position dependent
InputBytes(len, p) == [i \in 1..len |-> ((i * p) % 251) + 1]

\* input lengths: one byte, one byte per sub-chunk, one chunk, one byte
\* short of the alignment, the alignment, twice the alignment (chunks of
\* twice the size)
InputLengths ==
    {1, k * sub_chunk_no, get_alignment \div k, get_alignment - 1, get_alignment,
     2 * get_alignment}

\* the instances encode and decode are run on
DataInstance ==
    /\ q * t <= MaxNodesData
    /\ sub_chunk_no >= 1
    /\ sub_chunk_no <= MaxAlphaData

-----------------------------------------------------------------------------
(* Repair of one lost chunk from sub-chunks of d helpers *)

\* the planes named by a list of (index, count) runs, in the order of the
\* loops over the runs
RECURSIVE ExpandPlanes(_)
ExpandPlanes(runs) ==
    IF runs = << >> THEN << >>
    ELSE [j \in 1..Head(runs)[2] |-> Head(runs)[1] + j - 1]
         \o ExpandPlanes(Tail(runs))

\* sub_chunk_no minus the product over y of (q - weight_vector[y]), the
\* weights counted at to_read / q
get_repair_sub_chunk_count(want_to_read) ==
    LET weight(y) == Cardinality({ f \in want_to_read : f \div q = y })
        prod[y \in 0..t] ==
            IF y = 0 THEN 1 ELSE prod[y - 1] * (q - weight(y - 1))
    IN  sub_chunk_no - prod[t]

\* the sets and tables repair_one_lost_chunk works with
RepairCtx(lost_chunk, aloof_nodes, helper_data, sub_chunksize, planes) ==
    [lost |-> lost_chunk, aloof |-> aloof_nodes, helper |-> helper_data,
     sc |-> sub_chunksize, planes |-> planes,
     erasures |-> { lost_chunk - (lost_chunk % q) + i : i \in 0..(q - 1) }
                     \cup aloof_nodes]

\* repair_plane_to_ind[z]: the position of plane z in the helper's data
plane_to_ind(c, z) ==
    IF \E j \in 1..Len(c.planes) : c.planes[j] = z
    THEN (CHOOSE j \in 1..Len(c.planes) : c.planes[j] = z) - 1
    ELSE 0

\* the number of lost and aloof nodes that are red in plane z
repair_order(c, z) ==
    Cardinality({ node \in {c.lost} \cup c.aloof :
                    node % q = get_plane_vector(z)[node \div q] })

\* the body of the y, x loops for one node outside the erasures
repair_helper_node(r, c, x, y, z) ==
    LET node_xy == y * q + x
        zy == get_plane_vector(z)[y]
        node_sw == y * q + zy
        z_sw == z_sw_of(x, y, z)
        own == has_sub_chunk(c.helper, node_xy, plane_to_ind(c, z), c.sc)
    IN  IF r.out # "ok" \/ node_xy \in c.erasures THEN r
        ELSE IF node_sw \in c.aloof
        THEN IF /\ own
                /\ has_sub_chunk(r.U, node_sw, z_sw, c.sc)
                /\ has_sub_chunk(r.U, node_xy, z, c.sc)
             THEN r ELSE [r EXCEPT !.out = "throw"]
        ELSE IF zy # x
        THEN IF /\ own
                /\ has_sub_chunk(c.helper, node_sw, plane_to_ind(c, z_sw), c.sc)
                /\ has_sub_chunk(r.U, node_xy, z, c.sc)
             THEN r ELSE [r EXCEPT !.out = "throw"]
        ELSE IF ~(own /\ has_sub_chunk(r.U, node_xy, z, c.sc))
        THEN [r EXCEPT !.out = "ub"]
        ELSE [r EXCEPT !.U[node_xy] =
                memcpy_at(@, z * c.sc,
                          substr_of(c.helper[node_xy],
                                    plane_to_ind(c, z) * c.sc, c.sc))]

\* for (y < t) for (x < q): step idx is y = idx / q, x = idx % q
RECURSIVE repair_helpers_loop(_, _, _, _)
repair_helpers_loop(r, c, z, idx) ==
    IF r.out # "ok" \/ idx >= q * t THEN r
    ELSE repair_helpers_loop(repair_helper_node(r, c, idx % q, idx \div q, z),
                             c, z, idx + 1)

\* the last loop of a plane for one node i of the erasures; r.chunks is
\* recovered_data
repair_erased_node(r, c, i, z) ==
    LET x == i % q
        y == i \div q
        zy == get_plane_vector(z)[y]
        node_sw == y * q + zy
        z_sw == z_sw_of(x, y, z)
    IN  IF r.out # "ok" \/ i \in c.aloof THEN r
        ELSE IF x = zy
        THEN copy_from_U(r, i, z, c.sc)
        ELSE IF /\ has_sub_chunk(c.helper, i, plane_to_ind(c, z), c.sc)
                /\ has_sub_chunk(r.U, i, z, c.sc)
                /\ has_sub_chunk(r.chunks, node_sw, z_sw, c.sc)
        THEN r
        ELSE [r EXCEPT !.out = "throw"]

RECURSIVE repair_erased_loop(_, _, _, _)
repair_erased_loop(r, c, nodes, z) ==
    IF r.out # "ok" \/ nodes = << >> THEN r
    ELSE repair_erased_loop(repair_erased_node(r, c, Head(nodes), z),
                            c, Tail(nodes), z)

\* one plane: the helpers, assert(erasures.size() <= m), decode_uncoupled,
\* the erasures
repair_plane(r, c, z, ndbg) ==
    LET r1 == repair_helpers_loop(r, c, z, 0)
    IN  IF r1.out # "ok" THEN r1
        ELSE IF ~ndbg /\ Cardinality(c.erasures) > m
        THEN [r1 EXCEPT !.out = "abort"]
        ELSE repair_erased_loop(decode_uncoupled(r1, z, c.sc), c,
                                Ascending(c.erasures), z)

RECURSIVE repair_planes(_, _, _, _)
repair_planes(r, c, planes, ndbg) ==
    IF r.out # "ok" \/ planes = << >> THEN r
    ELSE repair_planes(repair_plane(r, c, Head(planes), ndbg), c,
                       Tail(planes), ndbg)

\* for (order = 1; ; order++), until an order has no plane
RECURSIVE repair_orders(_, _, _, _)
repair_orders(r, c, order, ndbg) ==
    LET planes == { z \in { c.planes[j] : j \in 1..Len(c.planes) } :
                      repair_order(c, z) = order }
    IN  IF r.out # "ok" \/ planes = {} THEN r
        ELSE repair_orders(repair_planes(r, c, Ascending(planes), ndbg),
                           c, order + 1, ndbg)

\* repair_one_lost_chunk; its asserts on the plane tables hold whenever
\* the planes are those of get_repair_subchunks(lost_chunk)
repair_one_lost_chunk(recovered_data, aloof_nodes, helper_data, repair_blocksize, repair_sub_chunks_ind, U, ndbg) ==
    LET repair_subchunks == sub_chunk_no \div q
        sub_chunksize == repair_blocksize \div repair_subchunks
        lost_chunk == First(DOMAIN recovered_data)
        c == RepairCtx(lost_chunk, aloof_nodes, helper_data, sub_chunksize,
                       ExpandPlanes(repair_sub_chunks_ind))
    IN  repair_orders(
            Run(allocate_U(U, sub_chunk_no * sub_chunksize), recovered_data, "ok"),
            c, 1, ndbg)

\* ErasureCodeClay::repair.  recovered_data[lost] is a copy of the zeroed
\* (*repaired)[i]; what repair_one_lost_chunk writes goes to the copy.
repair(want_to_read, chunks, chunk_size, U, ndbg) ==
    LET f == First(want_to_read)
        repair_sub_chunk_no == get_repair_sub_chunk_count(want_to_read)
        repair_blocksize == Len(chunks[First(DOMAIN chunks)])
        sub_chunksize == repair_blocksize \div repair_sub_chunk_no
        chunksize == sub_chunk_no * sub_chunksize
        helper_data ==
            [i \in { lost_node_of(h) : h \in DOMAIN chunks }
                   \cup (k..(k + nu - 1)) |->
                IF i >= k /\ i < k + nu
                THEN new_buffer(repair_blocksize, SIMD_ALIGN)
                ELSE chunks[IF i < k THEN i ELSE i - nu]]
        aloof_nodes ==
            { lost_node_of(i) : i \in (Nodes \ DOMAIN chunks) \ {f} }
        repaired == f :> new_buffer(chunk_size, SIMD_ALIGN)
        recovered_data == lost_node_of(f) :> repaired[f]
        r == repair_one_lost_chunk(recovered_data, aloof_nodes, helper_data,
                                   repair_blocksize,
                                   get_repair_subchunks(lost_node_of(f)),
                                   U, ndbg)
    IN  IF ~ndbg /\ (Cardinality(want_to_read) # 1
                     \/ Cardinality(DOMAIN chunks) # d)
        THEN [out |-> "abort", ret |-> 0, decoded |-> << >>, U |-> U]
        ELSE IF ~ndbg /\ (repair_blocksize % repair_sub_chunk_no # 0
                          \/ chunksize # chunk_size)
        THEN [out |-> "abort", ret |-> 0, decoded |-> << >>, U |-> U]
        ELSE IF r.out # "ok"
        THEN [out |-> r.out, ret |-> 0, decoded |-> repaired, U |-> r.U]
        ELSE [out |-> "return", ret |-> 0, decoded |-> repaired, U |-> r.U]

-----------------------------------------------------------------------------
(* Decoding *)

\* ErasureCodeClay::decode_chunks: the erased physical chunks, in logical
\* numbering, are decoded in a local copy of *decoded
decode_chunks(chunks, decoded, U, ndbg) ==
    LET erasures == { lost_node_of(i) : i \in Nodes \ DOMAIN chunks }
        chunk_size == LenAt(decoded, 0)
        coded_chunks ==
            [i \in 0..(q * t - 1) |->
                IF i < k THEN decoded[i]
                ELSE IF i < k + nu THEN new_buffer(chunk_size, SIMD_ALIGN)
                ELSE decoded[i - nu]]
    IN  decode_layered(erasures, coded_chunks, U, ndbg)

\* a variant that hands back every chunk zeroed, the supplied ones included
base_decode_zero_all(want_to_read, chunks, U, ndbg) ==
    LET blocksize == Len(chunks[First(DOMAIN chunks)])
    IN  [out |-> "return", ret |-> 0, U |-> U,
         decoded |-> [i \in Nodes |-> new_buffer(blocksize, SIMD_ALIGN)]]

\* ErasureCode::_decode
base_decode(want_to_read, chunks, U, ndbg) ==
    LET blocksize == Len(chunks[First(DOMAIN chunks)])
        decoded == [i \in Nodes |->
                      IF i \notin DOMAIN chunks
                      THEN new_buffer(blocksize, SIMD_ALIGN)
                      ELSE rebuild_aligned(chunks[i], SIMD_ALIGN)]
        r == decode_chunks(chunks, decoded, U, ndbg)
    IN  IF want_to_read \subseteq DOMAIN chunks
        THEN [out |-> "return", ret |-> 0, U |-> U,
              decoded |-> [i \in want_to_read |-> chunks[i]]]
        ELSE IF r.out # "ok"
        THEN [out |-> r.out, ret |-> 0, decoded |-> decoded, U |-> r.U]
        ELSE [out |-> "return", ret |-> 0, decoded |-> decoded, U |-> r.U]

\* ErasureCodeClay::decode
decode(want_to_read, chunks, chunk_size, U, ndbg) ==
    IF is_repair(want_to_read, DOMAIN chunks) # 0
    THEN repair(want_to_read, chunks, chunk_size, U, ndbg)
    ELSE base_decode(want_to_read, chunks, U, ndbg)

\* the bytes a helper sends for a list of (index, count) sub-chunk runs
RECURSIVE read_sub_chunks(_, _, _)
read_sub_chunks(chunk, runs, sc_size) ==
    IF runs = << >> THEN << >>
    ELSE substr_of(chunk, Head(runs)[1] * sc_size, Head(runs)[2] * sc_size)
         \o read_sub_chunks(chunk, Tail(runs), sc_size)

\* the erasure patterns decode is tried with: up to m + 1 chunks missing
ErasurePatterns == { E \in SUBSET Nodes : Cardinality(E) <= m + 1 }

\* the profiles init is tried with: small ones, and ones at the field limit
SmallProfiles ==
    { <<pk, pm, pd>> \in ((0 - 1)..MaxSmall) \X ((0 - 1)..MaxSmall)
                         \X ((0 - 1)..(2 * MaxSmall)) : TRUE }

LargeProfiles ==
    { pr \in ((MaxFieldNodes - 4)..MaxFieldNodes) \X (1..(MaxSmall + 1))
             \X ((MaxFieldNodes - 4)..(MaxFieldNodes + 3)) :
        pr[3] >= pr[1] - 1 /\ pr[3] <= pr[1] + pr[2] }

Profiles == SmallProfiles \cup LargeProfiles

NoCall == [op |-> "none"]
NoChunks == << >>

Init ==
    /\ ndebug \in BOOLEAN
    /\ st = "Initial"
    /\ k = 0 /\ m = 0 /\ d = 0
    /\ q = 0 /\ t = 0 /\ nu = 0
    /\ sub_chunk_no = 0
    /\ U_buf = << >>
    /\ input = << >>
    /\ encoded = NoChunks
    /\ call = NoCall

\* the caller initialises the instance with profile {k, m, d}; an instance
\* whose init failed is not used again
ClayInit ==
    /\ st = "Initial"
    /\ \E pr \in Profiles : \E r \in {clay_init(pr[1], pr[2], pr[3])} :
             /\ k' = r.mem.k /\ m' = r.mem.m /\ d' = r.mem.d
             /\ q' = r.mem.q /\ t' = r.mem.t /\ nu' = r.mem.nu
             /\ sub_chunk_no' = r.mem.sub_chunk_no
             /\ st' = IF r.ret = 0 THEN "Ready" ELSE "Failed"
             /\ call' = [op |-> "init", k |-> pr[1], m |-> pr[2], d |-> pr[3],
                         out |-> "return", ret |-> r.ret]
    /\ UNCHANGED <<ndebug, U_buf, input, encoded>>

\* helper selection is asked for on instances of at most 2 * MaxSmall chunks
MinimumToDecode ==
    /\ st = "Ready"
    /\ k + m <= 2 * MaxSmall
    /\ \E want_to_read \in WantSets, available \in SUBSET Nodes :
         \E r \in {minimum_to_decode(want_to_read, available, ndebug)} :
             /\ call' = [op |-> "minimum_to_decode",
                         want |-> want_to_read, available |-> available,
                         repair |-> is_repair(want_to_read, available),
                         out |-> r.out, ret |-> r.ret,
                         minimum |-> r.minimum]
             /\ st' = IF r.out = "abort" THEN "Dead" ELSE "Result"
    /\ UNCHANGED <<ndebug, k, m, d, q, t, nu, sub_chunk_no, U_buf, input, encoded>>

\* the caller encodes an input, wanting all k + m chunks, and keeps the
\* chunks of an encode that returned
Encode ==
    /\ st = "Ready"
    /\ DataInstance
    /\ \E len \in InputLengths, p \in 1..MaxPattern :
         \E r \in {encode(Nodes, InputBytes(len, p), U_buf, ndebug)} :
             /\ input' = InputBytes(len, p)
             /\ encoded' = IF r.out = "return" THEN r.encoded ELSE NoChunks
             /\ U_buf' = r.U
             /\ call' = [op |-> "encode", out |-> r.out, ret |-> r.ret]
             /\ st' = IF r.out \in {"abort", "ub"} THEN "Dead" ELSE "Result"
    /\ UNCHANGED <<ndebug, k, m, d, q, t, nu, sub_chunk_no>>

\* the caller decodes the chunks of the last encode from the full chunks
\* that survive the erasure of E, wanting the erased chunks or the data chunks
Decode ==
    /\ st = "Ready"
    /\ DataInstance
    /\ DOMAIN encoded = Nodes
    /\ \E E \in ErasurePatterns : \E want_to_read \in {E, 0..(k - 1)} :
         \E r \in {decode(want_to_read, [i \in Nodes \ E |-> encoded[i]],
                           Len(encoded[0]), U_buf, ndebug)} :
             /\ want_to_read # {}
             /\ U_buf' = r.U
             /\ call' = [op |-> "decode", want |-> want_to_read,
                         available |-> Nodes \ E, helpers |-> Nodes \ E,
                         fragments |-> FALSE,
                         out |-> r.out, ret |-> r.ret, decoded |-> r.decoded]
             /\ st' = IF r.out \in {"abort", "ub"} THEN "Dead" ELSE "Result"
    /\ UNCHANGED <<ndebug, k, m, d, q, t, nu, sub_chunk_no, input, encoded>>

\* the caller reads, from every chunk minimum_to_decode named, the
\* sub-chunks it named, and decodes from them
DecodeFromMinimum ==
    /\ st = "Result"
    /\ call.op = "minimum_to_decode"
    /\ call.out = "return" /\ call.ret = 0
    /\ call.want # {} /\ DOMAIN call.minimum # {}
    /\ DataInstance
    /\ DOMAIN encoded = Nodes
    /\ \E r \in {decode(call.want,
                          [h \in DOMAIN call.minimum |->
                              read_sub_chunks(encoded[h], call.minimum[h],
                                              Len(encoded[0]) \div sub_chunk_no)],
                          Len(encoded[0]), U_buf, ndebug)} :
           /\ U_buf' = r.U
           /\ call' = [op |-> "decode", want |-> call.want,
                       available |-> call.available,
                       helpers |-> DOMAIN call.minimum,
                       fragments |-> TRUE,
                       out |-> r.out, ret |-> r.ret, decoded |-> r.decoded]
           /\ st' = IF r.out \in {"abort", "ub"} THEN "Dead" ELSE "Result"
    /\ UNCHANGED <<ndebug, k, m, d, q, t, nu, sub_chunk_no, input, encoded>>

\* ClayCode::chunk_size of the library interface, on an instance built with
\* the parameters k, m, d: the data divided among k chunks, rounded up
chunk_size(data_size) == (data_size + k - 1) \div k

\* the object sizes a chunk size is asked for
ObjectSizes ==
    {0, 1, k + 1, get_alignment - 1, get_alignment, get_alignment + 1}

\* the caller asks ErasureCodeClay::get_chunk_size for the chunk size of an
\* object
GetChunkSize ==
    /\ st = "Ready"
    /\ DataInstance
    /\ \E object_size \in ObjectSizes :
         call' = [op |-> "get_chunk_size", object_size |-> object_size,
                  out |-> "return", ret |-> get_chunk_size(object_size)]
    /\ st' = "Result"
    /\ UNCHANGED <<ndebug, k, m, d, q, t, nu, sub_chunk_no, U_buf, input, encoded>>

\* the caller asks ClayCode::chunk_size for the chunk size of an object
ChunkSize ==
    /\ st = "Ready"
    /\ DataInstance
    /\ \E data_size \in ObjectSizes :
         call' = [op |-> "chunk_size", object_size |-> data_size,
                  out |-> "return", ret |-> chunk_size(data_size)]
    /\ st' = "Result"
    /\ UNCHANGED <<ndebug, k, m, d, q, t, nu, sub_chunk_no, U_buf, input, encoded>>

\* the caller drops the outputs of the last call
Forget ==
    /\ st = "Result"
    /\ st' = "Ready"
    /\ call' = NoCall
    /\ UNCHANGED <<ndebug, k, m, d, q, t, nu, sub_chunk_no, U_buf, input, encoded>>

Next ==
    \/ ClayInit
    \/ MinimumToDecode
    \/ Encode
    \/ Decode
    \/ DecodeFromMinimum
    \/ GetChunkSize
    \/ ChunkSize
    \/ Forget

Spec == Init /\ [][Next]_vars

-----------------------------------------------------------------------------
(* The operations of decode_layered, one at a time *)

\* sub-chunk z of node's chunk ("C", in *chunks) or of U_buf[node] ("U")
Loc(kind, node, z) == <<kind, node, z>>

\* one operation on plane z within the pass iscore of the loop: the
\* sub-chunks of *chunks and U_buf it takes as known values (reads), those
\* of *chunks and U_buf it stores to (writes), and those whose values it
\* computes, in *chunks, in U_buf or in buffers of its own (makes)
Event(op, iscore, z, reads, writes, makes) ==
    [op |-> op, iscore |-> iscore, z |-> z, reads |-> reads,
     writes |-> writes, makes |-> makes]

\* get_uncoupled_from_coupled: the two coupled sub-chunks are known, the
\* pair code decodes into pftsubchunks, which hold copies
get_uncoupled_from_coupled_event(iscore, x, y, z) ==
    LET node_xy == y * q + x
        node_sw == y * q + get_plane_vector(z)[y]
        z_sw == z_sw_of(x, y, z)
    IN  Event("get_uncoupled_from_coupled", iscore, z,
              {Loc("C", node_xy, z), Loc("C", node_sw, z_sw)}, {},
              {Loc("U", node_xy, z), Loc("U", node_sw, z_sw)})

\* the body of the x, y loops of decode_erasures for one node
decode_erasures_node_events(erased_chunks, iscore, x, y, z) ==
    LET node_xy == q * y + x
        zy == get_plane_vector(z)[y]
        node_sw == q * y + zy
    IN  IF node_xy \in erased_chunks THEN << >>
        ELSE IF zy < x
        THEN <<get_uncoupled_from_coupled_event(iscore, x, y, z)>>
        ELSE IF zy = x
        THEN <<Event("copy_to_U", iscore, z, {Loc("C", node_xy, z)},
                     {Loc("U", node_xy, z)}, {Loc("U", node_xy, z)})>>
        ELSE IF node_sw \in erased_chunks
        THEN <<get_uncoupled_from_coupled_event(iscore, x, y, z)>>
        ELSE << >>

\* decode_uncoupled: the U sub-chunks of the nodes not erased are known,
\* the scalar code decodes into all_subchunks, which hold copies
decode_uncoupled_event(erased_chunks, iscore, z) ==
    Event("decode_uncoupled", iscore, z,
          { Loc("U", i, z) : i \in (0..(q * t - 1)) \ erased_chunks }, {},
          { Loc("U", i, z) : i \in erased_chunks })

\* decode_erasures: for (x < q) for (y < t), step idx is x = idx / t,
\* y = idx % t; then decode_uncoupled
RECURSIVE decode_erasures_events(_, _, _, _)
decode_erasures_events(erased_chunks, iscore, z, idx) ==
    IF idx >= q * t THEN <<decode_uncoupled_event(erased_chunks, iscore, z)>>
    ELSE decode_erasures_node_events(erased_chunks, iscore, idx \div t,
                                     idx % t, z)
         \o decode_erasures_events(erased_chunks, iscore, z, idx + 1)

\* the second loop of decode_layered for one erased node of plane z
recover_node_events(erased_chunks, iscore, node_xy, z) ==
    LET x == node_xy % q
        y == node_xy \div q
        zy == get_plane_vector(z)[y]
        node_sw == y * q + zy
        z_sw == z_sw_of(x, y, z)
    IN  IF zy # x
        THEN IF node_sw \notin erased_chunks
             THEN <<Event("recover_type1_erasure", iscore, z,
                          {Loc("C", node_sw, z_sw), Loc("U", node_xy, z)}, {},
                          {Loc("C", node_xy, z)})>>
             ELSE IF zy < x
             THEN <<Event("get_coupled_from_uncoupled", iscore, z,
                          {Loc("U", node_xy, z), Loc("U", node_sw, z_sw)}, {},
                          {Loc("C", node_xy, z), Loc("C", node_sw, z_sw)})>>
             ELSE << >>
        ELSE <<Event("copy_from_U", iscore, z, {Loc("U", node_xy, z)},
                     {Loc("C", node_xy, z)}, {Loc("C", node_xy, z)})>>

RECURSIVE recover_nodes_events(_, _, _, _)
recover_nodes_events(erased_chunks, iscore, nodes, z) ==
    IF nodes = << >> THEN << >>
    ELSE recover_node_events(erased_chunks, iscore, Head(nodes), z)
         \o recover_nodes_events(erased_chunks, iscore, Tail(nodes), z)

\* the first loop over the planes of one pass: decode_erasures
RECURSIVE decode_planes_events(_, _, _)
decode_planes_events(erased_chunks, iscore, planes) ==
    IF planes = << >> THEN << >>
    ELSE decode_erasures_events(erased_chunks, iscore, Head(planes), 0)
         \o decode_planes_events(erased_chunks, iscore, Tail(planes))

\* the second loop over the planes of one pass
RECURSIVE recover_planes_events(_, _, _)
recover_planes_events(erased_chunks, iscore, planes) ==
    IF planes = << >> THEN << >>
    ELSE recover_nodes_events(erased_chunks, iscore,
                              Ascending(erased_chunks), Head(planes))
         \o recover_planes_events(erased_chunks, iscore, Tail(planes))

\* one pass of the loop over iscore
pass_events(erased_chunks, iscore) ==
    decode_planes_events(erased_chunks, iscore,
                         planes_of_order(erased_chunks, iscore))
    \o recover_planes_events(erased_chunks, iscore,
                             planes_of_order(erased_chunks, iscore))

\* the passes taken from max_iscore down to iscore
RECURSIVE iscore_events_descending(_, _, _)
iscore_events_descending(erased_chunks, iscore, max_iscore) ==
    IF iscore > max_iscore THEN << >>
    ELSE pass_events(erased_chunks, max_iscore)
         \o iscore_events_descending(erased_chunks, iscore, max_iscore - 1)

\* for (iscore = 0; iscore <= max_iscore; iscore++)
RECURSIVE iscore_events(_, _, _)
iscore_events(erased_chunks, iscore, max_iscore) ==
    IF iscore > max_iscore THEN << >>
    ELSE pass_events(erased_chunks, iscore)
         \o iscore_events(erased_chunks, iscore + 1, max_iscore)

\* the operations of decode_layered(erased_chunks, chunks), in order
decode_layered_events(erased_chunks) ==
    iscore_events(pad_erasures(erased_chunks, k + nu), 0,
                  get_max_iscore(pad_erasures(erased_chunks, k + nu)))

\* the erased sets decode_layered is entered with: the parity chunks
\* (encode_chunks) or the chunks missing from a decode (decode_chunks); with
\* more than m of them assert(num_erasures == m) ends the run unless the
\* asserts are compiled out
LayeredErasures ==
    { { lost_node_of(i) : i \in E } :
        E \in { E \in SUBSET Nodes :
                  /\ E # {} /\ E # Nodes
                  /\ ndebug \/ Cardinality(E) <= m } }

\* decode_layered is entered; instances of at most 2 * MaxSmall chunks with
\* at most 2 * MaxAlphaData planes are followed
LayeredStart ==
    /\ st = "Ready"
    /\ k + m <= 2 * MaxSmall
    /\ sub_chunk_no >= 1 /\ sub_chunk_no <= 2 * MaxAlphaData
    /\ \E erased_chunks \in LayeredErasures :
         \E events \in {decode_layered_events(erased_chunks)} :
             call' = [op |-> "decode_layered",
                      erased |-> pad_erasures(erased_chunks, k + nu),
                      events |-> events, pos |-> 0]
    /\ st' = "Layered"
    /\ UNCHANGED <<ndebug, k, m, d, q, t, nu, sub_chunk_no, U_buf, input, encoded>>

\* the next operation of the two loops is carried out
LayeredStep ==
    /\ st = "Layered"
    /\ call.pos < Len(call.events)
    /\ call' = [call EXCEPT !.pos = @ + 1]
    /\ UNCHANGED <<ndebug, st, k, m, d, q, t, nu, sub_chunk_no, U_buf, input, encoded>>

\* return 0 after the last pass
LayeredReturn ==
    /\ st = "Layered"
    /\ call.pos = Len(call.events)
    /\ st' = "Ready"
    /\ call' = NoCall
    /\ UNCHANGED <<ndebug, k, m, d, q, t, nu, sub_chunk_no, U_buf, input, encoded>>

NextLayered ==
    \/ ClayInit
    \/ LayeredStart
    \/ LayeredStep
    \/ LayeredReturn

SpecLayered == Init /\ [][NextLayered]_vars

-----------------------------------------------------------------------------
(* The operations of repair_one_lost_chunk, one at a time *)

\* the body of the y, x loops for one node outside the erasures: "C" is a
\* sub-chunk of helper_data (named by its plane), "U" one of U_buf; the
\* pair code decodes into pftsubchunks, which hold copies
repair_helper_node_events(c, order, x, y, z) ==
    LET node_xy == y * q + x
        zy == get_plane_vector(z)[y]
        node_sw == y * q + zy
        z_sw == z_sw_of(x, y, z)
    IN  IF node_xy \in c.erasures THEN << >>
        ELSE IF node_sw \in c.aloof
        THEN <<Event("pft_aloof", order, z,
                     {Loc("C", node_xy, z), Loc("U", node_sw, z_sw)}, {},
                     {Loc("U", node_xy, z)})>>
        ELSE IF zy # x
        THEN <<Event("pft_helper", order, z,
                     {Loc("C", node_xy, z), Loc("C", node_sw, z_sw)}, {},
                     {Loc("U", node_xy, z)})>>
        ELSE <<Event("copy_to_U", order, z, {Loc("C", node_xy, z)},
                     {Loc("U", node_xy, z)}, {Loc("U", node_xy, z)})>>

\* for (y < t) for (x < q): step idx is y = idx / q, x = idx % q
RECURSIVE repair_helpers_events(_, _, _, _)
repair_helpers_events(c, order, z, idx) ==
    IF idx >= q * t THEN << >>
    ELSE repair_helper_node_events(c, order, idx % q, idx \div q, z)
         \o repair_helpers_events(c, order, z, idx + 1)

\* the last loop of a plane for one node i of the erasures
repair_erased_node_events(c, order, i, z) ==
    LET x == i % q
        y == i \div q
        zy == get_plane_vector(z)[y]
        node_sw == y * q + zy
        z_sw == z_sw_of(x, y, z)
    IN  IF i \in c.aloof THEN << >>
        ELSE IF x = zy
        THEN <<Event("copy_from_U", order, z, {Loc("U", i, z)},
                     {Loc("C", i, z)}, {Loc("C", i, z)})>>
        ELSE <<Event("pft_lost", order, z,
                     {Loc("C", i, z), Loc("U", i, z)}, {},
                     {Loc("C", node_sw, z_sw)})>>

RECURSIVE repair_erased_events(_, _, _, _)
repair_erased_events(c, order, nodes, z) ==
    IF nodes = << >> THEN << >>
    ELSE repair_erased_node_events(c, order, Head(nodes), z)
         \o repair_erased_events(c, order, Tail(nodes), z)

\* one plane: the helpers, decode_uncoupled, the erasures
repair_plane_events(c, order, z) ==
    repair_helpers_events(c, order, z, 0)
    \o <<decode_uncoupled_event(c.erasures, order, z)>>
    \o repair_erased_events(c, order, Ascending(c.erasures), z)

RECURSIVE repair_planes_events(_, _, _)
repair_planes_events(c, order, planes) ==
    IF planes = << >> THEN << >>
    ELSE repair_plane_events(c, order, Head(planes))
         \o repair_planes_events(c, order, Tail(planes))

\* the planes of one order, ascending (ordered_planes[order])
ordered_planes(c, order) ==
    Ascending({ z \in { c.planes[j] : j \in 1..Len(c.planes) } :
                  repair_order(c, z) = order })

\* for (order = 1; ; order++), until an order has no plane
RECURSIVE repair_orders_events(_, _)
repair_orders_events(c, order) ==
    IF ordered_planes(c, order) = << >> THEN << >>
    ELSE repair_planes_events(c, order, ordered_planes(c, order))
         \o repair_orders_events(c, order + 1)

\* what repair hands to repair_one_lost_chunk for the lost chunk f and the
\* helper chunks given
repair_ctx(f, helpers) ==
    RepairCtx(lost_node_of(f),
              { lost_node_of(i) : i \in (Nodes \ helpers) \ {f} },
              << >>, 0,
              ExpandPlanes(get_repair_subchunks(lost_node_of(f))))

\* repair is entered for one lost chunk with the helpers minimum_to_repair
\* chose; instances of at most 2 * MaxSmall chunks with at most
\* 2 * MaxAlphaData planes are followed
RepairStart ==
    /\ st = "Ready"
    /\ k + m <= 2 * MaxSmall
    /\ sub_chunk_no >= 1 /\ sub_chunk_no <= 2 * MaxAlphaData
    /\ \E f \in Nodes : \E available \in SUBSET (Nodes \ {f}) :
         /\ is_repair({f}, available) # 0
         /\ \E r \in {minimum_to_repair({f}, available, ndebug)} :
              /\ r.out = "return"
              /\ \E c \in {repair_ctx(f, DOMAIN r.minimum)} :
                   call' = [op |-> "repair", want |-> {f},
                            helpers |-> DOMAIN r.minimum,
                            lost |-> c.lost, aloof |-> c.aloof,
                            erased |-> c.erasures, planes |-> c.planes,
                            events |-> repair_orders_events(c, 1),
                            pos |-> 0]
    /\ st' = "Repairing"
    /\ UNCHANGED <<ndebug, k, m, d, q, t, nu, sub_chunk_no, U_buf, input, encoded>>

\* the next operation of the loops over the orders and planes
RepairStep ==
    /\ st = "Repairing"
    /\ call.pos < Len(call.events)
    /\ call' = [call EXCEPT !.pos = @ + 1]
    /\ UNCHANGED <<ndebug, st, k, m, d, q, t, nu, sub_chunk_no, U_buf, input, encoded>>

\* return 0 after the last order
RepairReturn ==
    /\ st = "Repairing"
    /\ call.pos = Len(call.events)
    /\ st' = "Ready"
    /\ call' = NoCall
    /\ UNCHANGED <<ndebug, k, m, d, q, t, nu, sub_chunk_no, U_buf, input, encoded>>

NextRepair ==
    \/ ClayInit
    \/ RepairStart
    \/ RepairStep
    \/ RepairReturn

SpecRepair == Init /\ [][NextRepair]_vars

-----------------------------------------------------------------------------
(* Calls on shortened instances, with the chunk map the layered decoder
   worked on kept for inspection *)

\* instances with shortened nodes, of at most 2 * MaxSmall chunks and at
\* most 2 * MaxAlphaData planes
ShortenedInstance ==
    /\ nu > 0
    /\ k + m <= 2 * MaxSmall
    /\ sub_chunk_no >= 1 /\ sub_chunk_no <= 2 * MaxAlphaData

\* how a run of the layered decoder ends, as an outcome of the call
run_out(r) == IF r.out = "ok" THEN "return" ELSE r.out

\* encode of an input of the length of the alignment: encode_prepare, then
\* encode_chunks on the prepared chunks
ShortenedEncode ==
    /\ st = "Ready"
    /\ ShortenedInstance
    /\ \E prep \in {encode_prepare(InputBytes(get_alignment, 1))} :
         /\ prep.out = "return"
         /\ \E r \in {encode_chunks(prep.encoded, U_buf, ndebug)} :
              /\ input' = InputBytes(get_alignment, 1)
              /\ encoded' = IF r.out = "ok" THEN prep.encoded ELSE NoChunks
              /\ U_buf' = r.U
              /\ call' = [op |-> "encode_chunks", out |-> run_out(r),
                          ret |-> 0, chunks |-> r.chunks]
              /\ st' = IF r.out \in {"abort", "ub"} THEN "Dead" ELSE "Result"
    /\ UNCHANGED <<ndebug, k, m, d, q, t, nu, sub_chunk_no>>

\* decode of the chunks that survive the erasure of E, on the way of
\* ErasureCode::_decode: the missing chunks zero-filled, then decode_chunks
ShortenedDecode ==
    /\ st = "Ready"
    /\ ShortenedInstance
    /\ DOMAIN encoded = Nodes
    /\ \E E \in ErasurePatterns : \E want_to_read \in {E, 0..(k - 1)} :
         /\ E # {} /\ E # Nodes
         /\ ~(want_to_read \subseteq Nodes \ E)
         /\ is_repair(want_to_read, Nodes \ E) = 0
         /\ \E r \in {decode_chunks(
                        [i \in Nodes \ E |-> encoded[i]],
                        [i \in Nodes |->
                           IF i \in E
                           THEN new_buffer(Len(encoded[First(Nodes \ E)]),
                                           SIMD_ALIGN)
                           ELSE rebuild_aligned(encoded[i], SIMD_ALIGN)],
                        U_buf, ndebug)} :
              /\ U_buf' = r.U
              /\ call' = [op |-> "decode_chunks", out |-> run_out(r),
                          ret |-> 0, chunks |-> r.chunks]
              /\ st' = IF r.out \in {"abort", "ub"} THEN "Dead" ELSE "Result"
    /\ UNCHANGED <<ndebug, k, m, d, q, t, nu, sub_chunk_no, input, encoded>>

\* repair of chunk f from the sub-chunks minimum_to_repair names
ShortenedRepair ==
    /\ st = "Ready"
    /\ ShortenedInstance
    /\ DOMAIN encoded = Nodes
    /\ \E f \in Nodes : \E available \in SUBSET (Nodes \ {f}) :
         /\ is_repair({f}, available) # 0
         /\ \E mr \in {minimum_to_repair({f}, available, ndebug)} :
              /\ mr.out = "return"
              /\ \E r \in {repair({f},
                              [h \in DOMAIN mr.minimum |->
                                 read_sub_chunks(encoded[h], mr.minimum[h],
                                                 Len(encoded[0]) \div sub_chunk_no)],
                              Len(encoded[0]), U_buf, ndebug)} :
                   /\ U_buf' = r.U
                   /\ call' = [op |-> "repair_chunk", out |-> r.out,
                               ret |-> r.ret, chunks |-> << >>]
                   /\ st' = IF r.out \in {"abort", "ub"} THEN "Dead"
                            ELSE "Result"
    /\ UNCHANGED <<ndebug, k, m, d, q, t, nu, sub_chunk_no, input, encoded>>

\* the caller asks for the number of sub-chunks a helper sends when the
\* chunks want_to_read are lost
GetRepairSubChunkCount ==
    /\ st = "Ready"
    /\ k + m <= 2 * MaxSmall
    /\ sub_chunk_no >= 1 /\ sub_chunk_no <= 2 * MaxAlphaData
    /\ \E want_to_read \in SUBSET Nodes :
         /\ want_to_read # {}
         /\ \E r \in {get_repair_sub_chunk_count(want_to_read)} :
              call' = [op |-> "get_repair_sub_chunk_count",
                       want |-> want_to_read, out |-> "return", ret |-> r]
    /\ st' = "Result"
    /\ UNCHANGED <<ndebug, k, m, d, q, t, nu, sub_chunk_no, U_buf, input, encoded>>

NextShortened ==
    \/ ClayInit
    \/ GetRepairSubChunkCount
    \/ ShortenedEncode
    \/ ShortenedDecode
    \/ ShortenedRepair
    \/ Forget

SpecShortened == Init /\ [][NextShortened]_vars

-----------------------------------------------------------------------------
(* Two calls of decode_layered on one instance at the same time. U_buf is a
   member of the instance and no lock is taken, so the operations of the two
   calls interleave. A sub-chunk is named by what it holds: ZeroChunk, or
   the input of a call. *)

ZeroChunk == <<0, 0, 0>>

\* sub-chunk z of the chunk the call thr was given for node
InputChunk(thr, node, z) ==
    IF node >= k /\ node < k + nu THEN ZeroChunk ELSE <<thr, node, z>>

\* U_buf[i] after "BufferList buf(size, SIMD_ALIGN); buf.zero()"
ZeroBuffers == [i \in 0..(q * t - 1) |-> [z \in 1..sub_chunk_no |-> ZeroChunk]]

\* the check "U_buf[i].length() == 0" and the assignment of the zero
\* buffers, then the operations of the two loops
concurrent_events(erased_chunks) ==
    <<Event("alloc_check", 0, 0, {}, {}, {}),
      Event("alloc_store", 0, 0, {}, {}, {})>>
    \o decode_layered_events(erased_chunks)

\* the erased chunks of the call as _decode hands them over: zero-filled
\* when missing, the input otherwise
concurrent_chunks(thr, erased_chunks) ==
    [loc \in { Loc("C", i, z) : i \in pad_erasures(erased_chunks, k + nu),
                                z \in 0..(sub_chunk_no - 1) } |->
        IF loc[2] \in erased_chunks THEN ZeroChunk
        ELSE InputChunk(thr, loc[2], loc[3])]

\* sub-chunk z of (*chunks)[node] of a call
chunk_value(C, thr, node, z) ==
    IF Loc("C", node, z) \in DOMAIN C THEN C[Loc("C", node, z)]
    ELSE InputChunk(thr, node, z)

\* one operation e of the call thr on U_buf = U: the memcpy of
\* decode_erasures stores to U_buf, the memcpy of the second loop of
\* decode_layered stores to *chunks, all other operations store to copies
concurrent_apply(U, th, thr, e) ==
    IF e.op = "alloc_check"
    THEN [U |-> U, C |-> th.C, fresh |-> (DOMAIN U = {})]
    ELSE IF e.op = "alloc_store"
    THEN [U |-> IF th.fresh THEN ZeroBuffers ELSE U,
          C |-> th.C, fresh |-> FALSE]
    ELSE IF e.op = "copy_to_U"
    THEN LET loc == CHOOSE l \in e.writes : TRUE
         IN  [U |-> [U EXCEPT ![loc[2]][loc[3] + 1] =
                         chunk_value(th.C, thr, loc[2], loc[3])],
              C |-> th.C, fresh |-> th.fresh]
    ELSE IF e.op = "copy_from_U"
    THEN LET loc == CHOOSE l \in e.writes : TRUE
         IN  [U |-> U,
              C |-> [th.C EXCEPT ![loc] = U[loc[2]][loc[3] + 1]],
              fresh |-> th.fresh]
    ELSE [U |-> U, C |-> th.C, fresh |-> th.fresh]

\* the call thr run from operation pos on with no other call under way
RECURSIVE run_alone(_, _, _, _)
run_alone(r, thr, events, pos) ==
    IF pos > Len(events) THEN r
    ELSE run_alone(concurrent_apply(r.U, r, thr, events[pos]), thr, events,
                   pos + 1)

\* two callers enter decode with one chunk missing each
ConcurrentStart ==
    /\ st = "Ready"
    /\ DataInstance
    /\ \E e1, e2 \in Nodes :
         \E ev1 \in {concurrent_events({lost_node_of(e1)})} :
         \E ev2 \in {concurrent_events({lost_node_of(e2)})} :
             call' = [op |-> "concurrent",
                      erased |-> <<{lost_node_of(e1)}, {lost_node_of(e2)}>>,
                      events |-> <<ev1, ev2>>,
                      pos |-> <<0, 0>>,
                      C |-> <<concurrent_chunks(1, {lost_node_of(e1)}),
                              concurrent_chunks(2, {lost_node_of(e2)})>>,
                      fresh |-> <<FALSE, FALSE>>,
                      U0 |-> U_buf]
    /\ st' = "Concurrent"
    /\ UNCHANGED <<ndebug, k, m, d, q, t, nu, sub_chunk_no, U_buf, input, encoded>>

\* one of the two calls carries out its next operation
ConcurrentStep ==
    /\ st = "Concurrent"
    /\ \E thr \in {1, 2} :
         /\ call.pos[thr] < Len(call.events[thr])
         /\ \E r \in {concurrent_apply(U_buf,
                         [C |-> call.C[thr], fresh |-> call.fresh[thr]],
                         thr, call.events[thr][call.pos[thr] + 1])} :
              /\ U_buf' = r.U
              /\ call' = [call EXCEPT !.pos[thr] = @ + 1,
                                      !.C[thr] = r.C,
                                      !.fresh[thr] = r.fresh]
    /\ UNCHANGED <<ndebug, st, k, m, d, q, t, nu, sub_chunk_no, input, encoded>>

\* both calls have returned 0
ConcurrentReturn ==
    /\ st = "Concurrent"
    /\ \A thr \in {1, 2} : call.pos[thr] = Len(call.events[thr])
    /\ st' = "Result"
    /\ call' = [call EXCEPT !.op = "concurrent_done"]
    /\ UNCHANGED <<ndebug, k, m, d, q, t, nu, sub_chunk_no, U_buf, input, encoded>>

NextConcurrent ==
    \/ ClayInit
    \/ ConcurrentStart
    \/ ConcurrentStep
    \/ ConcurrentReturn

SpecConcurrent == Init /\ [][NextConcurrent]_vars

-----------------------------------------------------------------------------
(* Properties *)

\* the shortening count as the specification defines it from (k, m, d)
SpecNu(pk, pm, pd) ==
    LET sq == pd - pk + 1
    IN  (sq - ((pk + pm) % sq)) % sq

SpecValid(pk, pm, pd) ==
    /\ pk >= 2
    /\ pm >= 1
    /\ pk <= pd
    /\ pd <= pk + pm - 1
    /\ pk + pm + SpecNu(pk, pm, pd) <= 254

SectionPhysical(f) ==
    { p \in Nodes : CDiv(lost_node_of(p), q) = CDiv(lost_node_of(f), q) }

IsMinimumCall == call.op = "minimum_to_decode"

RepairChosen ==
    /\ IsMinimumCall
    /\ call.repair = 1
    /\ call.out = "return"
    /\ call.ret = 0

\* C6: for a lost chunk, is_repair answers true if and only if (a) one
\* chunk f is wanted, (b) every other physical node of f's y-section is
\* available, (c) at least d chunks are available.
C6_IsRepairIff ==
    (IsMinimumCall /\ ~(call.want \subseteq call.available)) =>
        ((call.repair = 1) <=>
            /\ Cardinality(call.want) = 1
            /\ \A p \in SectionPhysical(First(call.want)) \ call.want :
                   p \in call.available
            /\ Cardinality(call.available) >= d)

\* C7: on the repair path the helper set contains every surviving physical
\* node of f's y-section.
C7_HelpersContainSection ==
    RepairChosen =>
        \A p \in (SectionPhysical(First(call.want)) \ call.want)
                     \cap call.available :
            p \in DOMAIN call.minimum

\* the repair path chosen where a companion of f is not among the d lowest
\* available chunks
C7_Witness ==
    /\ RepairChosen
    /\ \E p \in (SectionPhysical(First(call.want)) \ call.want)
                    \cap call.available :
          Cardinality({a \in call.available : a < p}) >= d

\* C8: when minimum_to_repair returns 0 the helper set has exactly d
\* elements, all of them available, and the failed node is not one of them.
C8_HelperSetSize ==
    RepairChosen =>
        /\ Cardinality(DOMAIN call.minimum) = d
        /\ DOMAIN call.minimum \subseteq call.available
        /\ First(call.want) \notin DOMAIN call.minimum

\* the repair path chosen with more than d chunks available
C8_Witness ==
    /\ RepairChosen
    /\ Cardinality(call.available) > d

\* the sub-chunk indices a list of (index, count) runs names, in order
RECURSIVE ExpandRuns(_)
ExpandRuns(runs) ==
    IF runs = << >> THEN << >>
    ELSE [j \in 1..Head(runs)[2] |-> Head(runs)[1] + j - 1]
         \o ExpandRuns(Tail(runs))

RECURSIVE SumCounts(_)
SumCounts(runs) ==
    IF runs = << >> THEN 0 ELSE Head(runs)[2] + SumCounts(Tail(runs))

\* the planes whose digit at f's y is f's x, in increasing order
SpecRepairPlanes(f) ==
    LET lost == lost_node_of(f)
    IN  Ascending({ z \in 0..(sub_chunk_no - 1) :
                      get_plane_vector(z)[lost \div q] = lost % q })

\* C9: every helper is given the same list of (offset, count) runs, the
\* runs name exactly the planes of repair_subchunks(f) in increasing order,
\* and their counts sum to beta = alpha / q.
C9_Bandwidth ==
    RepairChosen =>
        \A h \in DOMAIN call.minimum :
            /\ \A g \in DOMAIN call.minimum : call.minimum[g] = call.minimum[h]
            /\ ExpandRuns(call.minimum[h]) = SpecRepairPlanes(First(call.want))
            /\ SumCounts(call.minimum[h]) * q = sub_chunk_no

\* a repair with q > 1 whose helpers are given more than one run
C9_Witness ==
    /\ RepairChosen
    /\ q > 1
    /\ \E h \in DOMAIN call.minimum : Len(call.minimum[h]) > 1

\* the chunks 0..n-1 of a chunk map, one after the other
RECURSIVE ConcatChunks(_, _)
ConcatChunks(map, n) ==
    IF n = 0 THEN << >>
    ELSE ConcatChunks(map, n - 1) \o (IF (n - 1) \in DOMAIN map THEN map[n - 1] ELSE << >>)

\* the first len bytes of a byte sequence
Prefix(bytes, len) == SubSeq(bytes, 1, Min(len, Len(bytes)))

\* a decode call on full-size chunks / on the sub-chunks minimum_to_decode
\* asked for
IsFullDecode == call.op = "decode" /\ ~call.fragments
IsFragmentDecode == call.op = "decode" /\ call.fragments

Erased == Nodes \ call.available

ReturnedZero == call.out = "return" /\ call.ret = 0

\* C1: MDS property: for every erasure pattern E with 1 <= |E| <= m, decode
\* with the surviving full-size chunks and want_to_read = E returns 0 and
\* yields, for every index in E, the chunk encode produced at that index.
C1_MDS ==
    (/\ IsFullDecode
     /\ Cardinality(Erased) >= 1
     /\ Cardinality(Erased) <= m
     /\ call.want = Erased) =>
        /\ ReturnedZero
        /\ \A i \in Erased :
               i \in DOMAIN call.decoded /\ call.decoded[i] = encoded[i]

\* C2: beyond MDS: with m + 1 chunks erased, a decode call that wants a
\* missing chunk returns a non-zero error and does not report success.
C2_BeyondMDS ==
    (/\ IsFullDecode
     /\ Cardinality(Erased) = m + 1
     /\ call.want \cap Erased # {}) =>
        /\ call.out = "return"
        /\ call.ret # 0

\* C3: repair exactness: for a single failed node f, with the helpers and
\* sub-chunks minimum_to_decode({f}, all other nodes) named, decode returns 0
\* and the repaired chunk equals the original chunk at index f.
C3_RepairExact ==
    (/\ IsFragmentDecode
     /\ Cardinality(call.want) = 1
     /\ call.available = Nodes \ call.want) =>
        /\ ReturnedZero
        /\ \A f \in call.want :
               f \in DOMAIN call.decoded /\ call.decoded[f] = encoded[f]

\* C4: encode is systematic for any input length L > 0: after encode
\* returns 0 the data chunks 0..k-1, one after the other and cut to their
\* first L bytes, equal the input.
C4_Systematic ==
    (call.op = "encode" /\ ReturnedZero) =>
        Prefix(ConcatChunks(encoded, k), Len(input)) = input

\* C10: round trip: for data of k * alpha * sigma bytes, encoding and then
\* decoding the data chunks from the full, unerased chunk set returns 0 and
\* reproduces the data.
C10_RoundTrip ==
    (/\ IsFullDecode
     /\ Erased = {}
     /\ call.want = 0..(k - 1)
     /\ Len(input) % (k * sub_chunk_no) = 0) =>
        /\ ReturnedZero
        /\ Prefix(ConcatChunks(call.decoded, k), Len(input)) = input

\* C11: all errors are returned, not thrown: every call of init,
\* minimum_to_decode, encode and decode (the repair path included) ends by
\* returning; none ends in an exception or a failed assertion.
C11_ErrorsReturned ==
    call.op # "none" => call.out = "return"

\* the chunks the caller hands to the decode call recorded in call: whole
\* chunks, or the sub-chunks minimum_to_decode names
CallChunks ==
    IF call.fragments
    THEN LET minimum == minimum_to_decode(call.want, call.available, ndebug).minimum
         IN  [h \in call.helpers |->
                 read_sub_chunks(encoded[h], minimum[h],
                                 Len(encoded[0]) \div sub_chunk_no)]
    ELSE [i \in call.helpers |-> encoded[i]]

\* C12: no hidden state survives a call: an encode or decode (repair
\* included) ends as the same call ends on an instance that has made no
\* call before, whose U-buffer is still to be allocated.
C12_NoHiddenState ==
    /\ call.op = "encode" =>
           \A r \in {encode(Nodes, input, << >>, ndebug)} :
               /\ call.out = r.out
               /\ call.ret = r.ret
               /\ r.out = "return" => encoded = r.encoded
    /\ call.op = "decode" =>
           \A r \in {decode(call.want, CallChunks, Len(encoded[0]), << >>, ndebug)} :
               /\ call.out = r.out
               /\ call.ret = r.ret
               /\ call.decoded = r.decoded

\* C13: padding: the chunk size c returned for an object size satisfies
\* c * k >= object_size, c % alpha = 0 and (c * k + m * c) % SIMD_ALIGN = 0.
C13_Padding ==
    call.op \in {"get_chunk_size", "chunk_size"} =>
        /\ call.ret * k >= call.object_size
        /\ call.ret % sub_chunk_no = 0
        /\ (call.ret * k + m * call.ret) % SIMD_ALIGN = 0

C15_MinimumToDecodeErrors ==
    call.op = "minimum_to_decode" =>
        /\ call.out = "return"
        /\ (call.ret = 0 - EIO) <=>
               (/\ ~(call.want \subseteq call.available)
                /\ Cardinality(call.available) < k)
        /\ call.ret # 0 - EIO =>
               /\ call.ret = 0
               /\ DOMAIN call.minimum \subseteq call.available

C15_Witness ==
    /\ call.op = "minimum_to_decode"
    /\ call.ret = 0 - EIO
    /\ call.available # {}


\* alpha is the mathematical value base^e (no product is formed, so the
\* comparison itself cannot overflow)
RECURSIVE IsPowerOf(_, _, _)
IsPowerOf(alpha, base, e) ==
    IF e = 0 \/ base = 1 THEN alpha = 1
    ELSE /\ alpha >= base
         /\ alpha % base = 0
         /\ IsPowerOf(alpha \div base, base, e - 1)

\* C16: for every parameter triple that is accepted, the stored values
\* satisfy q = d - k + 1, t = ceil((k + m) / q), nu = q * t - (k + m) with
\* 0 <= nu < q, and the stored sub_chunk_no is the mathematical value q^t
\* (the power is computed without leaving the range of an int).
C16_DerivedParameters ==
    (call.op = "init" /\ ReturnedZero) =>
        /\ q = d - k + 1
        /\ t = (k + m + q - 1) \div q
        /\ nu = q * t - (k + m)
        /\ 0 <= nu /\ nu < q
        /\ IsPowerOf(sub_chunk_no, q, t)


\* the chunks are, byte for byte, codewords of a (k, m) MDS code: at every
\* byte position the k + m symbols are all zero or at least m + 1 of them
\* are not (the distance of an MDS code)
IsScalarCodeword(chunks) ==
    /\ DOMAIN chunks = Nodes
    /\ \A b \in 1..Len(chunks[0]) :
          LET nonzero == { i \in Nodes : chunks[i][b] # 0 }
          IN  nonzero = {} \/ Cardinality(nonzero) >= m + 1

\* C17: with q = 1 the code is degenerate: d = k, alpha = 1, beta = 1 and
\* every vertex is red (the digit of every plane in every column is the
\* node's own x, so no pair transform is applied), and what encode produces
\* is what the scalar (k, m) MDS code produces on the whole chunks.
C17_DegenerateScalar ==
    (q = 1 /\ st \in {"Ready", "Result", "Dead"} /\ DataInstance) =>
        /\ d = k
        /\ sub_chunk_no = 1
        /\ sub_chunk_no \div q = 1
        /\ \A z \in 0..(sub_chunk_no - 1) : \A y \in 0..(t - 1) :
              get_plane_vector(z)[y] = 0
        /\ (call.op = "encode" /\ ReturnedZero) => IsScalarCodeword(encoded)


\* a decode that went the way of repair: one chunk wanted, from the
\* sub-chunks of the d helpers minimum_to_repair chose
IsRepairCall ==
    /\ IsFragmentDecode
    /\ Cardinality(call.want) = 1
    /\ is_repair(call.want, call.available) # 0
    /\ Cardinality(call.helpers) = d

\* the lost node, the aloof nodes and the repair planes of that call, as
\* repair hands them to repair_one_lost_chunk
CallRepairCtx ==
    [lost |-> lost_node_of(First(call.want)),
     aloof |-> { lost_node_of(i) : i \in (Nodes \ call.helpers) \ call.want },
     planes |-> ExpandPlanes(get_repair_subchunks(lost_node_of(First(call.want))))]

PlaneSet(c) == { c.planes[j] : j \in 1..Len(c.planes) }

\* the planes the order loop of repair_one_lost_chunk works on, from
\* order on: it stops at the first order that no plane has
RECURSIVE visited_planes(_, _)
visited_planes(c, order) ==
    LET planes == { z \in PlaneSet(c) : repair_order(c, z) = order }
    IN  IF planes = {} THEN {}
        ELSE planes \cup visited_planes(c, order + 1)

\* C18: in every single-node repair from the d helpers minimum_to_repair
\* chose, the orders of the beta repair planes are the gap-free range
\* 1..max_ord, so that the order loop works on every repair plane before
\* repair returns 0.
C18_RepairVisitsEveryLayer ==
    (IsRepairCall /\ ReturnedZero) =>
        \A c \in {CallRepairCtx} :
            /\ Cardinality(PlaneSet(c)) = sub_chunk_no \div q
            /\ \A z \in PlaneSet(c) : \A o \in 1..repair_order(c, z) :
                   \E z2 \in PlaneSet(c) : repair_order(c, z2) = o
            /\ visited_planes(c, 1) = PlaneSet(c)


\* the operation decode_layered has just carried out, the one before it,
\* and the sub-chunks stored to before it began
IsLayeredStep == call.op = "decode_layered" /\ call.pos >= 1

CurrentEvent == call.events[call.pos]

PreviousEvent == call.events[call.pos - 1]

WrittenBefore == UNION { call.events[j].writes : j \in 1..(call.pos - 1) }

\* the intersection score of plane z: its erased red nodes
IScore(z) ==
    Cardinality({ i \in call.erased : i % q = get_plane_vector(z)[i \div q] })

\* C19: during layered decode no coupled or uncoupled sub-chunk of an
\* erased node is read before it has been computed: whatever an operation
\* takes as a known value of an erased node was stored by an earlier
\* operation, of a plane of lower intersection score or of the same score.
C19_DecodeWellFounded ==
    IsLayeredStep =>
        \A loc \in CurrentEvent.reads :
            loc[2] \in call.erased =>
                /\ loc \in WrittenBefore
                /\ IScore(loc[3]) <= IScore(CurrentEvent.z)

IsRepairStep == call.op = "repair" /\ call.pos >= 1

\* the order of plane z in the repair under way
RepairOrd(z) ==
    Cardinality({ node \in {call.lost} \cup call.aloof :
                    node % q = get_plane_vector(z)[node \div q] })

RepairPlanes == { call.planes[j] : j \in 1..Len(call.planes) }

\* C21: whenever repair, working on repair plane z, reads the uncoupled
\* sub-chunk of an aloof companion or the helper sub-chunk of a companion in
\* plane z_sw, z_sw is one of the repair planes fetched, and in the aloof
\* case z_sw has a lower order than z and U[node_sw, z_sw] has been stored.
C21_RepairDependencies ==
    (IsRepairStep /\ CurrentEvent.op \in {"pft_aloof", "pft_helper"}) =>
        \A loc \in CurrentEvent.reads :
            loc[3] # CurrentEvent.z =>
                /\ loc[3] \in RepairPlanes
                /\ loc[1] = "U" =>
                      /\ RepairOrd(loc[3]) < RepairOrd(CurrentEvent.z)
                      /\ loc \in WrittenBefore


\* decode_layered has carried out its last operation
IsLayeredDone == call.op = "decode_layered" /\ call.pos = Len(call.events)

WrittenAtEnd == UNION { call.events[j].writes : j \in 1..Len(call.events) }

\* C22: for every erased set handed to decode_layered, padded, max_iscore
\* is the number of y-sections the set touches and the order of every plane
\* lies in 0..max_iscore, so that every one of the alpha planes is decoded
\* exactly once, and on return C[i, z] has been stored for every erased
\* node i and every plane z.
C22_EveryLayerOnce ==
    IsLayeredDone =>
        /\ get_max_iscore(call.erased)
             = Cardinality({ y \in 0..(t - 1) :
                              \E i \in call.erased : i \div q = y })
        /\ \A z \in 0..(sub_chunk_no - 1) :
             /\ IScore(z) >= 0 /\ IScore(z) <= get_max_iscore(call.erased)
             /\ Cardinality({ j \in 1..Len(call.events) :
                                /\ call.events[j].op = "decode_uncoupled"
                                /\ call.events[j].z = z }) = 1
             /\ \A i \in call.erased : Loc("C", i, z) \in WrittenAtEnd


\* C23: decode and repair write no byte of a chunk the caller supplied:
\* every chunk handed back under the index of a supplied chunk holds the
\* bytes supplied, also when fewer than m chunks are erased and the erased
\* set is padded with surviving parity nodes.
C23_InputsReadOnly ==
    (call.op = "decode" /\ call.out = "return") =>
        \A i \in DOMAIN call.decoded :
            i \in call.helpers => call.decoded[i] = CallChunks[i]

C23_Witness ==
    /\ IsFullDecode /\ ReturnedZero
    /\ Erased # {} /\ Cardinality(Erased) < m
    /\ ~(call.want \subseteq call.available)
    /\ is_repair(call.want, call.available) = 0
    /\ \E i \in call.helpers \cap DOMAIN call.decoded :
          /\ i >= k
          /\ lost_node_of(i) \in pad_erasures({ lost_node_of(e) : e \in Erased }, k + nu)
    /\ \E i \in call.helpers \cap DOMAIN call.decoded :
          \E b \in 1..Len(call.decoded[i]) : call.decoded[i][b] # 0


\* an instance small enough for its planes to be listed
SmallGeometry ==
    /\ st \in {"Ready", "Layered"}
    /\ k + m <= 2 * MaxSmall
    /\ sub_chunk_no >= 1 /\ sub_chunk_no <= 2 * MaxAlphaData

\* the sum of the digits of vec, digit y weighted with q^y
LowFirstValue(vec) ==
    LET sum[y \in 0..t] ==
            IF y = 0 THEN 0 ELSE sum[y - 1] + vec[y - 1] * pow_int(q, y - 1)
    IN  sum[t]

\* the sum of the digits of vec, digit y weighted with q^(t - 1 - y)
HighFirstValue(vec) ==
    LET sum[y \in 0..t] ==
            IF y = 0 THEN 0 ELSE sum[y - 1] + vec[y - 1] * pow_int(q, t - y)
    IN  sum[t]

\* get_plane_vector maps the planes one to one onto the digit vectors
PlaneVectorBijection ==
    /\ \A z \in 0..(sub_chunk_no - 1) : \A y \in 0..(t - 1) :
          get_plane_vector(z)[y] >= 0 /\ get_plane_vector(z)[y] < q
    /\ \A z1, z2 \in 0..(sub_chunk_no - 1) :
          get_plane_vector(z1) = get_plane_vector(z2) => z1 = z2
    /\ \A vec \in [0..(t - 1) -> 0..(q - 1)] :
          \E z \in 0..(sub_chunk_no - 1) : get_plane_vector(z) = vec

RepairRunsExact(lost) ==
    LET runs == get_repair_subchunks(lost)
        planes == ExpandPlanes(runs)
        y_lost == lost \div q
        x_lost == lost % q
    IN  /\ Len(runs) = pow_int(q, y_lost)
        /\ \A j \in 1..Len(runs) : runs[j][2] = pow_int(q, t - 1 - y_lost)
        /\ \A j \in 1..(Len(runs) - 1) :
              runs[j][1] + runs[j][2] <= runs[j + 1][1]
        /\ Len(planes) * q = sub_chunk_no
        /\ \A j \in 1..(Len(planes) - 1) : planes[j] < planes[j + 1]
        /\ { planes[j] : j \in 1..Len(planes) }
             = { z \in 0..(sub_chunk_no - 1) :
                   get_plane_vector(z)[y_lost] = x_lost }

AllZero(buf) == \A b \in 1..Len(buf) : buf[b] = 0

\* C26: on an instance with nu > 0, every shortened node i in k..k+nu-1
\* holds zero in every plane, in the chunk map encode, decode and repair
\* work on and in U_buf.
C26_ShortenedZero ==
    (call.op \in {"encode_chunks", "decode_chunks", "repair_chunk"}
        /\ call.out = "return") =>
        \A i \in k..(k + nu - 1) :
            /\ i \in DOMAIN U_buf => AllZero(U_buf[i])
            /\ i \in DOMAIN call.chunks => AllZero(call.chunks[i])

C26_Witness ==
    /\ call.op = "decode_chunks" /\ call.out = "return"
    /\ nu > 0
    /\ \A i \in k..(k + nu - 1) :
          /\ i \in DOMAIN U_buf /\ Len(U_buf[i]) > 0
          /\ i \in DOMAIN call.chunks /\ Len(call.chunks[i]) > 0
    /\ \E i \in 0..(k - 1) : ~AllZero(U_buf[i])


\* e_y of the set E of physical nodes: the nodes whose logical index lies
\* in y-section y
SectionWeight(E, y) == Cardinality({ i \in E : lost_node_of(i) \div q = y })

RECURSIVE SectionProduct(_, _)
SectionProduct(E, y) ==
    IF y = 0 THEN 1
    ELSE SectionProduct(E, y - 1) * (q - SectionWeight(E, y - 1))

\* C27: for every set E of physical nodes, get_repair_sub_chunk_count(E)
\* is alpha minus the product over the y-sections of (q - e_y), e_y being
\* the number of nodes of E whose logical index lies in y-section y.
C27_RepairBandwidth ==
    call.op = "get_repair_sub_chunk_count" =>
        call.ret = sub_chunk_no - SectionProduct(call.want, t)


\* an instance of at most MaxSmall * MaxSmall planes
PairingGeometry ==
    /\ st \in {"Ready", "Layered"}
    /\ k + m <= 2 * MaxSmall
    /\ sub_chunk_no >= 1 /\ sub_chunk_no <= MaxSmall * MaxSmall

\* the companion of vertex (x, y, z): node y * q + z_vec[y] in plane z_sw
CompanionNode(x, y, z) == y * q + get_plane_vector(z)[y]

\* C28: for every vertex (x, y, z) that is not red, the companion plane
\* z_sw = z + (x - z_y) * q^(t-1-y) is a plane, has the digits of z except
\* digit y, which is x, the companion is not red, and the companion of the
\* companion is (x, y, z).
C28_PairingSymmetric ==
    PairingGeometry =>
        \A z \in 0..(sub_chunk_no - 1) : \A y \in 0..(t - 1) :
            \A x \in (0..(q - 1)) \ {get_plane_vector(z)[y]} :
                LET zy == get_plane_vector(z)[y]
                    z_sw == z_sw_of(x, y, z)
                IN  /\ 0 <= z_sw /\ z_sw < sub_chunk_no
                    /\ get_plane_vector(z_sw) =
                          [get_plane_vector(z) EXCEPT ![y] = x]
                    /\ get_plane_vector(z_sw)[y] # zy
                    /\ CompanionNode(zy, y, z_sw) = y * q + x
                    /\ z_sw_of(zy, y, z_sw) = z

C28_Witness ==
    /\ PairingGeometry
    /\ q >= 2 /\ t >= 3
    /\ IsLayeredStep
    /\ CurrentEvent.op = "get_uncoupled_from_coupled"
    /\ \E loc \in CurrentEvent.reads :
          /\ loc[3] # CurrentEvent.z
          /\ loc[3] \notin {CurrentEvent.z + 1, CurrentEvent.z - 1}


\* the chunks call thr hands back when it runs with no other call under way
AloneChunks(thr) ==
    run_alone([U |-> call.U0, C |-> concurrent_chunks(thr, call.erased[thr]),
               fresh |-> FALSE],
              thr, call.events[thr], 1).C

\* C29: two decode calls under way at the same time on one instance, with
\* inputs of their own, each hand back the chunks they hand back when run
\* alone.
C29_ConcurrentCallsIndependent ==
    call.op = "concurrent_done" =>
        \A thr \in {1, 2} : call.C[thr] = AloneChunks(thr)


\* the decode call recorded in call was dispatched to repair
TakesRepairPath ==
    /\ call.op = "decode"
    /\ is_repair(call.want, call.helpers) # 0

\* the erasures repair_one_lost_chunk decodes in every plane: the y-section
\* of the lost node and the aloof nodes
CallRepairErasures ==
    LET lost == lost_node_of(First(call.want))
    IN  { lost - (lost % q) + x : x \in 0..(q - 1) }
           \cup { lost_node_of(i) : i \in (Nodes \ call.helpers) \ call.want }

\* C30: when decode hands the call to repair because is_repair is true,
\* what repair and repair_one_lost_chunk assert holds: d chunks are given,
\* the length of the first is a multiple of the number of sub-chunks per
\* helper, the chunk size is sub_chunk_no times the sub-chunk size, and at
\* most m nodes are erased per plane.
C30_DispatchPreconditions ==
    TakesRepairPath =>
        LET repair_sub_chunk_no == get_repair_sub_chunk_count(call.want)
            repair_blocksize == Len(CallChunks[First(call.helpers)])
        IN  /\ Cardinality(call.want) = 1
            /\ Cardinality(call.helpers) = d
            /\ repair_blocksize % repair_sub_chunk_no = 0
            /\ sub_chunk_no * (repair_blocksize \div repair_sub_chunk_no)
                  = Len(encoded[0])
            /\ Cardinality(CallRepairErasures) <= m

=============================================================================
